---- MODULE Spec2Model ----
(***************************************************************************)
(* The rate limiter of components/contexts/RateLimitContext.tsx and its    *)
(* consumer page.                                                          *)
(*                                                                         *)
(* Time is Date.now() in milliseconds.  Every timer delay of the program   *)
(* (100, 1000, 60000) is a multiple of 100 ms, so the clock advances in    *)
(* steps of 100 ms and a timer callback runs at the instant it is due.     *)
(* Callbacks due at the same instant run in any order.                     *)
(*                                                                         *)
(* Token counts are JavaScript numbers.  capacity = max * (1 - buffer/100) *)
(* is kept exactly as the integer max * (100 - buffer), i.e. every token   *)
(* count of the model is in hundredths of a token, and one token is        *)
(* PercentBase hundredths.  Countdowns are kept in milliseconds, i.e. in   *)
(* thousandths of the seconds the code stores.                             *)
(*                                                                         *)
(* JavaScript is single threaded: an action of the model is one run of the *)
(* program between two suspension points (await, timer callback).  A       *)
(* continuation of an await on an already resolved promise is a microtask  *)
(* and runs before any timer callback; pc = "granted" is such a state.     *)
(***************************************************************************)
EXTENDS Integers, Sequences, FiniteSets, TLC

VARIABLES
    cfg,                          \* configuration and inputs of the run
    now,                          \* Date.now()
    tokensPerSecondRemainingRef,  \* useRef, line 62
    tokensPerMinuteRemainingRef,  \* useRef, line 65
    tokensPerSecondRemaining,     \* useState (display), line 70
    tokensPerMinuteRemaining,     \* useState (display), line 73
    perSecondCountdown,           \* useState, line 78
    perMinuteCountdown,           \* useState, line 79
    nextPerSecondRefill,          \* useRef, line 106
    nextPerMinuteRefill,          \* useRef, line 107
    countdownInterval,            \* due time of the setInterval of line 121
    perSecondInterval,            \* due time of the setInterval of line 124
    perMinuteInterval,            \* due time of the setInterval of line 132
    pc,                           \* per caller: position in executePromisesWithRateLimit
    wakeAt,                       \* per caller: due time of the setTimeout of line 87
    idx,                          \* per caller: number of the promiseFn of the current iteration
    results,                      \* per caller: line 156
    completed,                    \* per caller: line 158
    settled,                      \* per caller: how the promise of the drain settled
    progress,                     \* per caller: the calls of onProgressUpdate so far
    pendingPromisesRef,           \* per caller: page useRef, part_000 line 16
    completedPromises,            \* per caller: page useState, part_000 line 13
    granted,                      \* history, per caller: grants of consumeToken
    invoked,                      \* history, per caller: promiseFns invoked
    grantsSinceSecondRefill,      \* history: grants since the second counter was last set to capacity
    grantsSinceMinuteRefill,      \* history: grants since the minute counter was last set to capacity
    secondRefills,                \* history: number of refills of the second counter
    minuteRefills,                \* history: number of refills of the minute counter
    lastRefill,                   \* history: kind of the last refill and the values it overwrote
    grantsSinceSecondTick,        \* history: grants since the last callback of perSecondInterval
    changedSinceSnapshot,         \* history: a grant or a refill happened since the last updateCountdowns
    atCall                        \* history, per caller: what the drain found when it was called

bucketVars == <<tokensPerSecondRemainingRef, tokensPerMinuteRemainingRef,
                tokensPerSecondRemaining, tokensPerMinuteRemaining>>
countdownVars == <<perSecondCountdown, perMinuteCountdown>>
refillVars == <<nextPerSecondRefill, nextPerMinuteRefill, secondRefills,
                minuteRefills, lastRefill>>
timerVars == <<countdownInterval, perSecondInterval, perMinuteInterval>>
grantVars == <<granted, grantsSinceSecondRefill, grantsSinceMinuteRefill,
               grantsSinceSecondTick, changedSinceSnapshot>>
loopVars == <<idx, results, completed, progress, pendingPromisesRef, completedPromises>>
vars == <<cfg, now, bucketVars, countdownVars, refillVars, timerVars, pc, wakeAt,
          loopVars, settled, grantVars, invoked, atCall>>

----------------------------------------------------------------------------
(* Bounds and program constants *)

\* The clock stops after MaxTicks steps of 100 ms.
MaxTicks == 615

\* A drain is called at most MaxCallDelay steps of 100 ms after the mount.
MaxCallDelay == 12

\* Greatest common divisor of the timer delays: the step of the clock.
Quantum == 100
\* setTimeout(resolve, 100) of consumeToken.
PollDelay == 100
\* setInterval(updateCountdowns, 100).
CountdownPeriod == 100
\* setInterval(..., 1000) and Date.now() + 1000.
SecondWindow == 1000
\* setInterval(..., 60000) and Date.now() + 60000.
MinuteWindow == 60000
\* bufferPercentage / 100.
PercentBase == 100

Horizon == MaxTicks * Quantum
LastCall == MaxCallDelay * Quantum

MathMax(a, b) == IF a >= b THEN a ELSE b

----------------------------------------------------------------------------
(* Inputs *)

\* A promiseFn: the value its promise resolves with, or the reason it
\* rejects with when it fails.
Ok(v) == [value |-> v, fails |-> FALSE]
Failing(v) == [value |-> v, fails |-> TRUE]

\* perSecond=2, perMinute=100, buffer=0 and 5 tasks.
Scenario8 ==
    [maxTokensPerSecond |-> 2, maxTokensPerMinute |-> 100, bufferPercentage |-> 0,
     promiseFns |-> << <<Ok(10), Ok(20), Ok(30), Ok(40), Ok(50)>> >>]

\* Both caps bite: 2 per second, 3 per minute, 4 tasks.
BothCaps ==
    [maxTokensPerSecond |-> 2, maxTokensPerMinute |-> 3, bufferPercentage |-> 0,
     promiseFns |-> << <<Ok(40), Ok(30), Ok(20), Ok(10)>> >>]

\* The second task fails.
WithFailure ==
    [maxTokensPerSecond |-> 2, maxTokensPerMinute |-> 3, bufferPercentage |-> 0,
     promiseFns |-> << <<Ok(10), Failing(20), Ok(30)>> >>]

\* Two callers share the bucket pair; the second drains an empty queue.
WithEmptyQueue ==
    [maxTokensPerSecond |-> 1, maxTokensPerMinute |-> 2, bufferPercentage |-> 0,
     promiseFns |-> << <<Ok(10), Ok(20)>>, << >> >>]

\* Non-integer capacities: 3 * 0.9 = 2.7 and 5 * 0.9 = 4.5.
Fractional ==
    [maxTokensPerSecond |-> 3, maxTokensPerMinute |-> 5, bufferPercentage |-> 10,
     promiseFns |-> << <<Ok(10), Ok(20), Ok(30), Ok(40)>> >>]

\* Two concurrent drains share the bucket pair: 1 per second, 3 per minute.
Concurrent ==
    [maxTokensPerSecond |-> 1, maxTokensPerMinute |-> 3, bufferPercentage |-> 0,
     promiseFns |-> << <<Ok(10), Ok(20)>>, <<Ok(30), Ok(40)>> >>]

Configs == {Scenario8, BothCaps, WithFailure, WithEmptyQueue, Fractional}

Callers == DOMAIN cfg.promiseFns
totalPromises(c) == Len(cfg.promiseFns[c])

----------------------------------------------------------------------------
(* RateLimitProvider *)

adjustedMaxTokensPerSecond ==
    cfg.maxTokensPerSecond * (PercentBase - cfg.bufferPercentage)

adjustedMaxTokensPerMinute ==
    cfg.maxTokensPerMinute * (PercentBase - cfg.bufferPercentage)

\* The loop condition of consumeToken.
BlockedNoSecondCheck == tokensPerMinuteRemainingRef <= 0
BlockedNoMinuteCheck == tokensPerSecondRemainingRef <= 0
Blocked ==
    \/ tokensPerSecondRemainingRef <= 0
    \/ tokensPerMinuteRemainingRef <= 0

\* Math.max(x - 1, 0) on a counter kept in hundredths.
DecrementNoClamp(x) == x - PercentBase
Decrement(x) == MathMax(x - PercentBase, 0)

\* A microtask is queued: no timer callback runs and no time passes before it.
MicrotaskPending == \E c \in Callers : pc[c] = "granted"

Pending == [state |-> "pending", value |-> << >>, reason |-> 0]
Fulfilled(v) == [state |-> "fulfilled", value |-> v, reason |-> 0]
RejectedCaptured(r) == [state |-> "fulfilled", value |-> <<r>>, reason |-> 0]
Rejected(r) == [state |-> "rejected", value |-> << >>, reason |-> r]

\* consumeToken from its call, or from the wake-up of its timeout, to its
\* next suspension: either it sleeps PollDelay, or it takes one token from
\* both counters and returns.
ConsumeTokenNoRecheck(c) ==
    IF Blocked /\ pc[c] # "polling"
    THEN /\ pc' = [pc EXCEPT ![c] = "polling"]
         /\ wakeAt' = [wakeAt EXCEPT ![c] = now + PollDelay]
         /\ UNCHANGED <<bucketVars, grantVars>>
    ELSE /\ tokensPerSecondRemainingRef' = Decrement(tokensPerSecondRemainingRef)
         /\ tokensPerMinuteRemainingRef' = Decrement(tokensPerMinuteRemainingRef)
         /\ tokensPerSecondRemaining' = tokensPerSecondRemainingRef'
         /\ tokensPerMinuteRemaining' = tokensPerMinuteRemainingRef'
         /\ pc' = [pc EXCEPT ![c] = "granted"]
         /\ granted' = [granted EXCEPT ![c] = @ + 1]
         /\ grantsSinceSecondRefill' = grantsSinceSecondRefill + 1
         /\ grantsSinceMinuteRefill' = grantsSinceMinuteRefill + 1
         /\ grantsSinceSecondTick' = grantsSinceSecondTick + 1
         /\ changedSinceSnapshot' = TRUE
         /\ UNCHANGED wakeAt
ConsumeToken(c) ==
    IF Blocked
    THEN /\ pc' = [pc EXCEPT ![c] = "polling"]
         /\ wakeAt' = [wakeAt EXCEPT ![c] = now + PollDelay]
         /\ UNCHANGED <<bucketVars, grantVars>>
    ELSE /\ tokensPerSecondRemainingRef' = Decrement(tokensPerSecondRemainingRef)
         /\ tokensPerMinuteRemainingRef' = Decrement(tokensPerMinuteRemainingRef)
         /\ tokensPerSecondRemaining' = tokensPerSecondRemainingRef'
         /\ tokensPerMinuteRemaining' = tokensPerMinuteRemainingRef'
         /\ pc' = [pc EXCEPT ![c] = "granted"]
         /\ granted' = [granted EXCEPT ![c] = @ + 1]
         /\ grantsSinceSecondRefill' = grantsSinceSecondRefill + 1
         /\ grantsSinceMinuteRefill' = grantsSinceMinuteRefill + 1
         /\ grantsSinceSecondTick' = grantsSinceSecondTick + 1
         /\ changedSinceSnapshot' = TRUE
         /\ UNCHANGED wakeAt

\* return results
Return(c, res) ==
    /\ pc' = [pc EXCEPT ![c] = "returned"]
    /\ settled' = [settled EXCEPT ![c] = Fulfilled(res)]
    /\ UNCHANGED <<wakeAt, bucketVars, grantVars>>

\* const results: unknown[] = []
NoResultsPlaceholder == <<0>>
NoResults == << >>

\* results.push(result)
PushFront(arr, x) == <<x>> \o arr
Push(arr, x) == Append(arr, x)

\* The arguments of onProgressUpdate(completed, totalPromises - completed),
\* evaluated after completed++.
OnProgressArgsStale(done, total) == <<done, total - (done - 1)>>
OnProgressArgs(done, total) == <<done, total - done>>

\* for (const promiseFn of promiseFns): is there a first iteration.
HasFirstDoWhile(c) == TRUE
HasFirst(c) == totalPromises(c) > 0

\* await promiseFn() throws when the promise rejects.
RejectsNever(promiseFn) == FALSE
Rejects(promiseFn) == promiseFn.fails

\* executePromisesWithRateLimit is called: the page sets pendingPromisesRef,
\* the function runs to the first suspension of the first iteration, or
\* returns when the queue is empty.
Call(c) ==
    /\ pc[c] = "idle"
    /\ now <= LastCall
    /\ pendingPromisesRef' = [pendingPromisesRef EXCEPT ![c] = totalPromises(c)]
    /\ results' = [results EXCEPT ![c] = NoResults]
    /\ completed' = [completed EXCEPT ![c] = 0]
    /\ atCall' = [atCall EXCEPT ![c] =
                    [blocked |-> Blocked, secondRefills |-> secondRefills]]
    /\ IF HasFirst(c)
       THEN /\ idx' = [idx EXCEPT ![c] = 1]
            /\ ConsumeToken(c)
            /\ UNCHANGED settled
       ELSE /\ Return(c, results'[c])
            /\ UNCHANGED idx
    /\ UNCHANGED <<cfg, now, countdownVars, refillVars, timerVars, progress,
                   completedPromises, invoked>>

\* The timeout of consumeToken's loop fires: the loop condition is read again.
Poll(c) ==
    /\ pc[c] = "polling"
    /\ wakeAt[c] = now
    /\ ~MicrotaskPending
    /\ ConsumeToken(c)
    /\ UNCHANGED <<cfg, now, countdownVars, refillVars, timerVars, loopVars,
                   settled, invoked, atCall>>

\* await consumeToken() resumes: promiseFn() is invoked and awaited.
InvokeNoAwait(c) ==
    /\ pc[c] \in {"granted", "polling"}
    /\ pc' = [pc EXCEPT ![c] = "inflight"]
    /\ invoked' = [invoked EXCEPT ![c] = @ + 1]
    /\ UNCHANGED <<cfg, now, bucketVars, countdownVars, refillVars, timerVars,
                   wakeAt, loopVars, settled, grantVars, atCall>>
Invoke(c) ==
    /\ pc[c] = "granted"
    /\ pc' = [pc EXCEPT ![c] = "inflight"]
    /\ invoked' = [invoked EXCEPT ![c] = @ + 1]
    /\ UNCHANGED <<cfg, now, bucketVars, countdownVars, refillVars, timerVars,
                   wakeAt, loopVars, settled, grantVars, atCall>>

\* The promise of the current promiseFn settles, after any latency.  A
\* rejection leaves the function; a result is pushed and reported, and the
\* loop goes on to the next consumeToken or returns.
Settle(c) ==
    /\ pc[c] = "inflight"
    /\ LET promiseFn == cfg.promiseFns[c][idx[c]]
           done == completed[c] + 1
       IN IF Rejects(promiseFn)
          THEN /\ pc' = [pc EXCEPT ![c] = "rejected"]
               /\ settled' = [settled EXCEPT ![c] = Rejected(promiseFn.value)]
               /\ UNCHANGED <<wakeAt, bucketVars, grantVars, loopVars>>
          ELSE /\ results' = [results EXCEPT ![c] = Push(@, promiseFn.value)]
               /\ completed' = [completed EXCEPT ![c] = done]
               /\ progress' = [progress EXCEPT ![c] =
                                  Append(@, OnProgressArgs(done, totalPromises(c)))]
               /\ pendingPromisesRef' = [pendingPromisesRef EXCEPT ![c] =
                                  OnProgressArgs(done, totalPromises(c))[2]]
               /\ completedPromises' = [completedPromises EXCEPT ![c] =
                                  OnProgressArgs(done, totalPromises(c))[1]]
               /\ IF idx[c] < totalPromises(c)
                  THEN /\ idx' = [idx EXCEPT ![c] = @ + 1]
                       /\ ConsumeToken(c)
                       /\ UNCHANGED settled
                  ELSE /\ Return(c, results'[c])
                       /\ UNCHANGED idx
    /\ UNCHANGED <<cfg, now, countdownVars, refillVars, timerVars, invoked,
                   atCall>>

\* Math.max((next - now) / 1000, 0), in milliseconds.
CountdownWholeSeconds(next) == MathMax(((next - now) \div 1000) * 1000, 0)
Countdown(next) == MathMax(next - now, 0)

\* updateCountdowns, every 100 ms.
UpdateCountdowns ==
    /\ countdownInterval = now
    /\ ~MicrotaskPending
    /\ perSecondCountdown' = Countdown(nextPerSecondRefill)
    /\ perMinuteCountdown' = Countdown(nextPerMinuteRefill)
    /\ countdownInterval' = now + CountdownPeriod
    /\ changedSinceSnapshot' = FALSE
    /\ UNCHANGED <<cfg, now, bucketVars, refillVars, perSecondInterval,
                   perMinuteInterval, pc, wakeAt, loopVars, settled, granted,
                   grantsSinceSecondRefill, grantsSinceMinuteRefill,
                   grantsSinceSecondTick, invoked, atCall>>

\* The callback of perSecondInterval.
PerSecondRefillOverfill ==
    /\ perSecondInterval = now
    /\ ~MicrotaskPending
    /\ tokensPerSecondRemainingRef' = tokensPerSecondRemainingRef + adjustedMaxTokensPerSecond
    /\ tokensPerSecondRemaining' = tokensPerSecondRemainingRef'
    /\ nextPerSecondRefill' = now + SecondWindow
    /\ perSecondInterval' = now + SecondWindow
    /\ secondRefills' = secondRefills + 1
    /\ grantsSinceSecondRefill' = 0
    /\ grantsSinceSecondTick' = 0
    /\ changedSinceSnapshot' = TRUE
    /\ lastRefill' = [kind |-> "second", second |-> tokensPerSecondRemainingRef,
                      minute |-> tokensPerMinuteRemainingRef]
    /\ UNCHANGED <<cfg, now, tokensPerMinuteRemainingRef, tokensPerMinuteRemaining,
                   countdownVars, nextPerMinuteRefill, minuteRefills,
                   countdownInterval, perMinuteInterval, pc, wakeAt, loopVars,
                   settled, granted, grantsSinceMinuteRefill, invoked, atCall>>
PerSecondRefill ==
    /\ perSecondInterval = now
    /\ ~MicrotaskPending
    /\ tokensPerSecondRemainingRef' = adjustedMaxTokensPerSecond
    /\ tokensPerSecondRemaining' = tokensPerSecondRemainingRef'
    /\ nextPerSecondRefill' = now + SecondWindow
    /\ perSecondInterval' = now + SecondWindow
    /\ secondRefills' = secondRefills + 1
    /\ grantsSinceSecondRefill' = 0
    /\ grantsSinceSecondTick' = 0
    /\ changedSinceSnapshot' = TRUE
    /\ lastRefill' = [kind |-> "second", second |-> tokensPerSecondRemainingRef,
                      minute |-> tokensPerMinuteRemainingRef]
    /\ UNCHANGED <<cfg, now, tokensPerMinuteRemainingRef, tokensPerMinuteRemaining,
                   countdownVars, nextPerMinuteRefill, minuteRefills,
                   countdownInterval, perMinuteInterval, pc, wakeAt, loopVars,
                   settled, granted, grantsSinceMinuteRefill, invoked, atCall>>

\* The callback of perMinuteInterval.
PerMinuteRefillMinuteOnly ==
    /\ perMinuteInterval = now
    /\ ~MicrotaskPending
    /\ tokensPerMinuteRemainingRef' = adjustedMaxTokensPerMinute
    /\ tokensPerMinuteRemaining' = tokensPerMinuteRemainingRef'
    /\ nextPerMinuteRefill' = now + MinuteWindow
    /\ perMinuteInterval' = now + MinuteWindow
    /\ minuteRefills' = minuteRefills + 1
    /\ grantsSinceMinuteRefill' = 0
    /\ changedSinceSnapshot' = TRUE
    /\ lastRefill' = [kind |-> "minute", second |-> tokensPerSecondRemainingRef,
                      minute |-> tokensPerMinuteRemainingRef]
    /\ UNCHANGED <<cfg, now, tokensPerSecondRemainingRef, tokensPerSecondRemaining,
                   countdownVars, nextPerSecondRefill, secondRefills,
                   grantsSinceSecondRefill, countdownInterval, perSecondInterval,
                   pc, wakeAt, loopVars, settled, granted, grantsSinceSecondTick,
                   invoked, atCall>>
PerMinuteRefillDisplayOnly ==
    /\ perMinuteInterval = now
    /\ ~MicrotaskPending
    /\ tokensPerMinuteRemaining' = adjustedMaxTokensPerMinute
    /\ tokensPerSecondRemainingRef' = adjustedMaxTokensPerSecond
    /\ tokensPerSecondRemaining' = tokensPerSecondRemainingRef'
    /\ nextPerMinuteRefill' = now + MinuteWindow
    /\ perMinuteInterval' = now + MinuteWindow
    /\ minuteRefills' = minuteRefills + 1
    /\ secondRefills' = secondRefills + 1
    /\ grantsSinceMinuteRefill' = 0
    /\ grantsSinceSecondRefill' = 0
    /\ changedSinceSnapshot' = TRUE
    /\ lastRefill' = [kind |-> "minute", second |-> tokensPerSecondRemainingRef,
                      minute |-> tokensPerMinuteRemainingRef]
    /\ UNCHANGED <<cfg, now, tokensPerMinuteRemainingRef, countdownVars,
                   nextPerSecondRefill, countdownInterval,
                   perSecondInterval, pc, wakeAt, loopVars, settled, granted,
                   grantsSinceSecondTick, invoked, atCall>>
PerMinuteRefillRestartsSecond ==
    /\ perMinuteInterval = now
    /\ ~MicrotaskPending
    /\ tokensPerMinuteRemainingRef' = adjustedMaxTokensPerMinute
    /\ tokensPerMinuteRemaining' = tokensPerMinuteRemainingRef'
    /\ tokensPerSecondRemainingRef' = adjustedMaxTokensPerSecond
    /\ tokensPerSecondRemaining' = tokensPerSecondRemainingRef'
    /\ nextPerMinuteRefill' = now + MinuteWindow
    /\ perMinuteInterval' = now + MinuteWindow
    /\ nextPerSecondRefill' = now + SecondWindow
    /\ perSecondInterval' = now + SecondWindow
    /\ minuteRefills' = minuteRefills + 1
    /\ secondRefills' = secondRefills + 1
    /\ grantsSinceMinuteRefill' = 0
    /\ grantsSinceSecondRefill' = 0
    /\ changedSinceSnapshot' = TRUE
    /\ lastRefill' = [kind |-> "minute", second |-> tokensPerSecondRemainingRef,
                      minute |-> tokensPerMinuteRemainingRef]
    /\ UNCHANGED <<cfg, now, countdownVars, countdownInterval,
                   pc, wakeAt, loopVars, settled, granted,
                   grantsSinceSecondTick, invoked, atCall>>
PerMinuteRefill ==
    /\ perMinuteInterval = now
    /\ ~MicrotaskPending
    /\ tokensPerMinuteRemainingRef' = adjustedMaxTokensPerMinute
    /\ tokensPerMinuteRemaining' = tokensPerMinuteRemainingRef'
    /\ tokensPerSecondRemainingRef' = adjustedMaxTokensPerSecond
    /\ tokensPerSecondRemaining' = tokensPerSecondRemainingRef'
    /\ nextPerMinuteRefill' = now + MinuteWindow
    /\ perMinuteInterval' = now + MinuteWindow
    /\ minuteRefills' = minuteRefills + 1
    /\ secondRefills' = secondRefills + 1
    /\ grantsSinceMinuteRefill' = 0
    /\ grantsSinceSecondRefill' = 0
    /\ changedSinceSnapshot' = TRUE
    /\ lastRefill' = [kind |-> "minute", second |-> tokensPerSecondRemainingRef,
                      minute |-> tokensPerMinuteRemainingRef]
    /\ UNCHANGED <<cfg, now, countdownVars, nextPerSecondRefill, countdownInterval,
                   perSecondInterval, pc, wakeAt, loopVars, settled, granted,
                   grantsSinceSecondTick, invoked, atCall>>

\* 100 ms pass.  Every callback due now has run and no microtask is queued.
Tick ==
    /\ now < Horizon
    /\ ~MicrotaskPending
    /\ countdownInterval > now
    /\ perSecondInterval > now
    /\ perMinuteInterval > now
    /\ \A c \in Callers : pc[c] = "polling" => wakeAt[c] > now
    /\ now' = now + Quantum
    /\ UNCHANGED <<cfg, bucketVars, countdownVars, refillVars, timerVars, pc,
                   wakeAt, loopVars, settled, grantVars, invoked, atCall>>

----------------------------------------------------------------------------

\* The first render of RateLimitProvider and of the page, and the effects
\* that start the three intervals, at time 0.
InitState ==
    /\ now = 0
    /\ tokensPerSecondRemainingRef = adjustedMaxTokensPerSecond
    /\ tokensPerMinuteRemainingRef = adjustedMaxTokensPerMinute
    /\ tokensPerSecondRemaining = adjustedMaxTokensPerSecond
    /\ tokensPerMinuteRemaining = adjustedMaxTokensPerMinute
    /\ perSecondCountdown = 0
    /\ perMinuteCountdown = 0
    /\ nextPerSecondRefill = now + SecondWindow
    /\ nextPerMinuteRefill = now + MinuteWindow
    /\ countdownInterval = now + CountdownPeriod
    /\ perSecondInterval = now + SecondWindow
    /\ perMinuteInterval = now + MinuteWindow
    /\ pc = [c \in Callers |-> "idle"]
    /\ wakeAt = [c \in Callers |-> 0]
    /\ idx = [c \in Callers |-> 0]
    /\ results = [c \in Callers |-> << >>]
    /\ completed = [c \in Callers |-> 0]
    /\ settled = [c \in Callers |-> Pending]
    /\ progress = [c \in Callers |-> << >>]
    /\ pendingPromisesRef = [c \in Callers |-> 0]
    /\ completedPromises = [c \in Callers |-> 0]
    /\ granted = [c \in Callers |-> 0]
    /\ invoked = [c \in Callers |-> 0]
    /\ grantsSinceSecondRefill = 0
    /\ grantsSinceMinuteRefill = 0
    /\ secondRefills = 0
    /\ minuteRefills = 0
    /\ lastRefill = [kind |-> "none", second |-> 0, minute |-> 0]
    /\ grantsSinceSecondTick = 0
    /\ changedSinceSnapshot = TRUE
    /\ atCall = [c \in Callers |-> [blocked |-> FALSE, secondRefills |-> 0]]

Init ==
    /\ cfg \in Configs
    /\ InitState

\* The same program with two concurrent callers of executePromisesWithRateLimit.
InitConcurrent ==
    /\ cfg = Concurrent
    /\ InitState

Next ==
    \/ \E c \in Callers : Call(c)
    \/ \E c \in Callers : Poll(c)
    \/ \E c \in Callers : Invoke(c)
    \/ \E c \in Callers : Settle(c)
    \/ UpdateCountdowns
    \/ PerSecondRefill
    \/ PerMinuteRefill
    \/ Tick

Spec == Init /\ [][Next]_vars

SpecConcurrent == InitConcurrent /\ [][Next]_vars

\* A single caller under a fair event loop: due timer callbacks run, time
\* passes, queued continuations run, and every invoked promise settles.
InitFair ==
    /\ cfg = BothCaps
    /\ InitState

Fairness ==
    /\ WF_vars(Tick)
    /\ WF_vars(UpdateCountdowns)
    /\ WF_vars(PerSecondRefill)
    /\ WF_vars(PerMinuteRefill)
    /\ WF_vars(Poll(1))
    /\ WF_vars(Invoke(1))
    /\ WF_vars(Settle(1))

FairSpec == InitFair /\ [][Next]_vars /\ Fairness

----------------------------------------------------------------------------
(* Properties *)

queue(c) == cfg.promiseFns[c]
NoneFails(c) == \A i \in DOMAIN queue(c) : ~queue(c)[i].fails
HasFailure(c) == ~NoneFails(c)
FirstFailure(c) ==
    CHOOSE i \in DOMAIN queue(c) :
        /\ queue(c)[i].fails
        /\ \A j \in 1..(i - 1) : ~queue(c)[j].fails
Outcomes(c) == [i \in DOMAIN queue(c) |-> queue(c)[i].value]
IntegerCapacity(x) == x % PercentBase = 0
SomeCallerPolling == \E c \in Callers : pc[c] = "polling"

\* C1: in every reachable state both counters (the refs and the displayed
\* copies) lie between 0 and their capacity.
C1_CountersWithinCapacity ==
    /\ 0 <= tokensPerSecondRemainingRef
    /\ tokensPerSecondRemainingRef <= adjustedMaxTokensPerSecond
    /\ 0 <= tokensPerMinuteRemainingRef
    /\ tokensPerMinuteRemainingRef <= adjustedMaxTokensPerMinute
    /\ 0 <= tokensPerSecondRemaining
    /\ tokensPerSecondRemaining <= adjustedMaxTokensPerSecond
    /\ 0 <= tokensPerMinuteRemaining
    /\ tokensPerMinuteRemaining <= adjustedMaxTokensPerMinute

\* A grant has taken the last 0.7 token of the second counter, after grants,
\* per-second refills and a per-minute refill.
C1_Witness ==
    /\ cfg = Fractional
    /\ minuteRefills >= 1
    /\ secondRefills >= 2
    /\ grantsSinceSecondRefill = 3
    /\ tokensPerSecondRemainingRef = 0

\* C2: when no producer of the queue fails, results is at every moment the
\* outcomes of the first completed producers in input order, completed never
\* exceeds N, and the drain returns exactly the N outcomes in input order
\* with completed = N.
C2_DrainReturnsOutcomesInOrder ==
    \A c \in Callers :
        NoneFails(c) =>
            /\ completed[c] <= totalPromises(c)
            /\ results[c] = SubSeq(Outcomes(c), 1, completed[c])
            /\ settled[c].state # "rejected"
            /\ Cardinality({k \in DOMAIN progress[c] :
                              progress[c][k][1] = totalPromises(c)}) <= 1
            /\ pc[c] = "returned" =>
                  /\ settled[c] = Fulfilled(Outcomes(c))
                  /\ Len(settled[c].value) = totalPromises(c)
                  /\ completed[c] = totalPromises(c)

\* A drain of 5 producers has returned.
C2_Witness ==
    \E c \in Callers :
        /\ NoneFails(c)
        /\ totalPromises(c) = 5
        /\ pc[c] = "returned"
        /\ Len(settled[c].value) = 5

\* C3: with an integer per-second capacity c, at most c grants occur since
\* the last refill of the second counter (or since the start).
C3_SecondCapBoundsGrants ==
    IntegerCapacity(adjustedMaxTokensPerSecond) =>
        grantsSinceSecondRefill * PercentBase <= adjustedMaxTokensPerSecond

\* After a refill the burst has used the whole second window and the caller
\* waits although the minute counter has tokens.
C3_Witness ==
    /\ IntegerCapacity(adjustedMaxTokensPerSecond)
    /\ secondRefills >= 1
    /\ grantsSinceSecondRefill * PercentBase = adjustedMaxTokensPerSecond
    /\ tokensPerMinuteRemainingRef > 0
    /\ SomeCallerPolling

\* C4: with an integer per-minute capacity m, at most m grants occur since
\* the last per-minute refill (or since the start).
C4_MinuteCapBoundsGrants ==
    IntegerCapacity(adjustedMaxTokensPerMinute) =>
        grantsSinceMinuteRefill * PercentBase <= adjustedMaxTokensPerMinute

\* The minute window is used up, per-second refills have gone by since, and
\* the caller waits although the second counter has tokens.
C4_Witness ==
    /\ IntegerCapacity(adjustedMaxTokensPerMinute)
    /\ grantsSinceMinuteRefill * PercentBase = adjustedMaxTokensPerMinute
    /\ secondRefills - minuteRefills >= 3
    /\ tokensPerSecondRemainingRef > 0
    /\ grantsSinceSecondRefill = 0
    /\ SomeCallerPolling

\* C5: every per-minute refill sets, in its one step, the minute counter to
\* the minute capacity and the second counter to the second capacity.
C5_MinuteRefillResetsBoth ==
    [][minuteRefills' # minuteRefills =>
          /\ tokensPerMinuteRemainingRef' = adjustedMaxTokensPerMinute
          /\ tokensPerSecondRemainingRef' = adjustedMaxTokensPerSecond
          /\ tokensPerMinuteRemaining' = adjustedMaxTokensPerMinute
          /\ tokensPerSecondRemaining' = adjustedMaxTokensPerSecond]_vars

\* A per-minute refill has just overwritten two counters that were both
\* below capacity.
C5_Witness ==
    /\ lastRefill.kind = "minute"
    /\ grantsSinceMinuteRefill = 0
    /\ 0 < lastRefill.second
    /\ lastRefill.second < adjustedMaxTokensPerSecond
    /\ lastRefill.minute < adjustedMaxTokensPerMinute
    /\ tokensPerSecondRemainingRef = adjustedMaxTokensPerSecond
    /\ tokensPerMinuteRemainingRef = adjustedMaxTokensPerMinute

\* C6: onProgressUpdate has been called once per completed task, the k-th
\* call with (k, N - k); the page holds the arguments of the last call.
C6_ProgressOncePerCompletedTask ==
    \A c \in Callers :
        /\ Len(progress[c]) = completed[c]
        /\ \A k \in DOMAIN progress[c] :
              /\ progress[c][k] = <<k, totalPromises(c) - k>>
              /\ progress[c][k][1] + progress[c][k][2] = totalPromises(c)
        /\ completed[c] > 0 =>
              /\ completedPromises[c] = completed[c]
              /\ pendingPromisesRef[c] = totalPromises(c) - completed[c]

\* Four callbacks have been made, the last with pending = 0.
C6_Witness ==
    \E c \in Callers :
        /\ Len(progress[c]) = 4
        /\ progress[c][4] = <<4, 0>>
        /\ pendingPromisesRef[c] = 0

\* C7: the call of a drain on an empty queue returns in that step with an
\* empty outcome sequence, no progress callback and no grant, and leaves
\* both counters as they were.
C7_EmptyQueueReturnsAtOnce ==
    [][\A c \in Callers :
          (totalPromises(c) = 0 /\ pc[c] = "idle" /\ pc'[c] # "idle") =>
              /\ pc'[c] = "returned"
              /\ settled'[c] = Fulfilled(<< >>)
              /\ progress'[c] = << >>
              /\ granted'[c] = 0
              /\ tokensPerSecondRemainingRef' = tokensPerSecondRemainingRef
              /\ tokensPerMinuteRemainingRef' = tokensPerMinuteRemainingRef]_vars

\* A drain on an empty queue, called while the second counter was 0, has
\* returned, and the counter is still 0.
C7_Witness ==
    \E c \in Callers :
        /\ totalPromises(c) = 0
        /\ pc[c] = "returned"
        /\ atCall[c].blocked
        /\ tokensPerSecondRemainingRef = 0
        /\ secondRefills = 0

\* C8: with perSecond=2, perMinute=100, buffer=0 and 5 tasks, the second
\* counter has been refilled at least twice between the call of the drain
\* and its 5th grant.
C8_FiveGrantsSpanTwoRefills ==
    (cfg = Scenario8 /\ granted[1] >= 5) =>
        secondRefills - atCall[1].secondRefills >= 2

\* The 5th grant is made right after the second refill.
C8_Witness ==
    /\ cfg = Scenario8
    /\ granted[1] = 5
    /\ secondRefills - atCall[1].secondRefills = 2
    /\ grantsSinceSecondRefill = 1

\* C9: when the f-th producer is the first to fail, no producer after it is
\* invoked, no token after the f-th is acquired, no progress callback is
\* made beyond the f-1 completed tasks, and the drain ends rejected with
\* that producer's failure.
C9_FailureAbortsDrain ==
    \A c \in Callers :
        HasFailure(c) =>
            LET f == FirstFailure(c)
            IN /\ invoked[c] <= f
               /\ granted[c] <= f
               /\ Len(progress[c]) <= f - 1
               /\ completed[c] <= f - 1
               /\ pc[c] # "returned"
               /\ pc[c] = "rejected" =>
                     /\ settled[c].state = "rejected"
                     /\ settled[c].reason = queue(c)[f].value
                     /\ invoked[c] = f
                     /\ granted[c] = f

\* The drain was aborted with a producer left in the queue, and stays so
\* while tokens are available after a later refill.
C9_Witness ==
    \E c \in Callers :
        /\ pc[c] = "rejected"
        /\ FirstFailure(c) < totalPromises(c)
        /\ secondRefills >= 1
        /\ ~Blocked
        /\ invoked[c] = FirstFailure(c)

\* C10 as stated: a finished drain with a failing producer has returned an
\* outcome sequence that contains the failure.
C10_FailureInReturnedOutcomes ==
    \A c \in Callers :
        (HasFailure(c) /\ pc[c] \in {"returned", "rejected"}) =>
            /\ settled[c].state = "fulfilled"
            /\ \E k \in DOMAIN settled[c].value :
                  settled[c].value[k] = queue(c)[FirstFailure(c)].value

\* C10 amended: a drain with a failing producer never returns an outcome
\* sequence; it rejects with the failure of that producer, which is not
\* recorded in results, and the outcomes of the earlier tasks are not
\* returned.
C10_FailureRejectsDrain ==
    \A c \in Callers :
        HasFailure(c) =>
            /\ settled[c].state # "fulfilled"
            /\ \A k \in DOMAIN results[c] :
                  results[c][k] # queue(c)[FirstFailure(c)].value
            /\ pc[c] = "rejected" =>
                  /\ settled[c].state = "rejected"
                  /\ settled[c].reason = queue(c)[FirstFailure(c)].value
                  /\ settled[c].value = << >>

\* The drain is rejected while results holds the outcome of an earlier task.
C10_Witness ==
    \E c \in Callers :
        /\ HasFailure(c)
        /\ pc[c] = "rejected"
        /\ settled[c].state = "rejected"
        /\ Len(results[c]) = FirstFailure(c) - 1
        /\ Len(results[c]) >= 1

\* C11: with two concurrent drains on one bucket pair, every grant is
\* matched by exactly one decrement of each counter (no check-then-decrement
\* is interleaved with a refill or with the other caller), no counter is
\* below 0, and the grants since the last refill of the second counter stay
\* at most the integer second capacity.
C11_ConcurrentGrantsAreAtomic ==
    /\ tokensPerSecondRemainingRef >= 0
    /\ tokensPerMinuteRemainingRef >= 0
    /\ tokensPerSecondRemainingRef =
          adjustedMaxTokensPerSecond - PercentBase * grantsSinceSecondRefill
    /\ tokensPerMinuteRemainingRef =
          adjustedMaxTokensPerMinute - PercentBase * grantsSinceMinuteRefill
    /\ grantsSinceSecondRefill * PercentBase <= adjustedMaxTokensPerSecond
    /\ grantsSinceMinuteRefill * PercentBase <= adjustedMaxTokensPerMinute

\* Both callers woke at the same instant after a refill: the first took the
\* one token, the second found the counter at 0 and sleeps again.
C11_Witness ==
    /\ cfg = Concurrent
    /\ secondRefills >= 1
    /\ grantsSinceSecondRefill = 1
    /\ tokensPerSecondRemainingRef = 0
    /\ pc[1] = "granted"
    /\ wakeAt[1] = now
    /\ pc[2] = "polling"
    /\ wakeAt[2] = now + PollDelay
    /\ granted[2] >= 1

\* C12 as stated: an updateCountdowns that follows another one with no
\* grant and no refill in between stores the same two countdowns and leaves
\* the displayed counts as they were.
C12_SnapshotIdempotent ==
    [][(countdownInterval' # countdownInterval /\ ~changedSinceSnapshot) =>
          /\ perSecondCountdown' = perSecondCountdown
          /\ perMinuteCountdown' = perMinuteCountdown
          /\ tokensPerSecondRemaining' = tokensPerSecondRemaining
          /\ tokensPerMinuteRemaining' = tokensPerMinuteRemaining]_vars

\* C12 amended: with no grant and no refill in between, the next
\* updateCountdowns finds the same remaining counts (equal to the refs),
\* and each countdown lower by the 100 ms that passed, floored at 0.
C12_SnapshotTracksClock ==
    [][(countdownInterval' # countdownInterval /\ ~changedSinceSnapshot) =>
          /\ perSecondCountdown' = MathMax(perSecondCountdown - CountdownPeriod, 0)
          /\ perMinuteCountdown' = MathMax(perMinuteCountdown - CountdownPeriod, 0)
          /\ tokensPerSecondRemaining' = tokensPerSecondRemaining
          /\ tokensPerMinuteRemaining' = tokensPerMinuteRemaining
          /\ tokensPerSecondRemaining' = tokensPerSecondRemainingRef'
          /\ tokensPerMinuteRemaining' = tokensPerMinuteRemainingRef']_vars

\* updateCountdowns has run three times since the last refill, with no
\* grant or refill since the previous run.
C12_Witness ==
    /\ ~changedSinceSnapshot
    /\ countdownInterval = now + CountdownPeriod
    /\ secondRefills >= 1
    /\ perSecondCountdown = SecondWindow - 3 * CountdownPeriod
    /\ perMinuteCountdown = nextPerMinuteRefill - now

\* C13: a grant is made only from a state where both counters are > 0 and
\* lowers both in that step; a caller that goes to sleep does so because a
\* counter is <= 0 and changes neither counter; and no counter is ever
\* lowered except both together by a grant.
C13_AcquireAllOrNothing ==
    [][/\ \A c \in Callers :
             /\ granted'[c] # granted[c] =>
                   /\ tokensPerSecondRemainingRef > 0
                   /\ tokensPerMinuteRemainingRef > 0
                   /\ tokensPerSecondRemainingRef' < tokensPerSecondRemainingRef
                   /\ tokensPerMinuteRemainingRef' < tokensPerMinuteRemainingRef
                   /\ granted'[c] = granted[c] + 1
             /\ (pc'[c] = "polling" /\ (pc[c] # "polling" \/ wakeAt'[c] # wakeAt[c])) =>
                   /\ tokensPerSecondRemainingRef <= 0 \/ tokensPerMinuteRemainingRef <= 0
                   /\ tokensPerSecondRemainingRef' = tokensPerSecondRemainingRef
                   /\ tokensPerMinuteRemainingRef' = tokensPerMinuteRemainingRef
                   /\ granted' = granted
       /\ (\/ tokensPerSecondRemainingRef' < tokensPerSecondRemainingRef
           \/ tokensPerMinuteRemainingRef' < tokensPerMinuteRemainingRef) =>
             /\ tokensPerSecondRemainingRef' < tokensPerSecondRemainingRef
             /\ tokensPerMinuteRemainingRef' < tokensPerMinuteRemainingRef
             /\ \E c \in Callers : granted'[c] = granted[c] + 1]_vars

\* After a grant, a caller has slept through several polls with the second
\* counter full and the minute counter empty.
C13_Witness ==
    \E c \in Callers :
        /\ pc[c] = "polling"
        /\ granted[c] >= 1
        /\ wakeAt[c] >= 3 * SecondWindow
        /\ tokensPerMinuteRemainingRef = 0
        /\ tokensPerSecondRemainingRef = adjustedMaxTokensPerSecond

\* C14: within a drain, a producer is invoked only after its grant, the next
\* grant and the next invocation come only after onProgressUpdate for the
\* previous task, and at most one task is in flight.
C14_StrictlySequential ==
    \A c \in Callers :
        LET inFlight == invoked[c] - completed[c]
                           - (IF pc[c] = "rejected" THEN 1 ELSE 0)
        IN /\ invoked[c] <= granted[c]
           /\ granted[c] <= Len(progress[c]) + 1
           /\ invoked[c] <= Len(progress[c]) + 1
           /\ inFlight \in {0, 1}
           /\ inFlight = 1 <=> pc[c] = "inflight"
           /\ pc[c] = "inflight" => idx[c] = invoked[c]
           /\ pc[c] = "granted" =>
                 (invoked[c] = completed[c] /\ granted[c] = completed[c] + 1)

\* The third producer is in flight after two progress callbacks.
C14_Witness ==
    \E c \in Callers :
        /\ pc[c] = "inflight"
        /\ invoked[c] = 3
        /\ granted[c] = 3
        /\ Len(progress[c]) = 2

\* C15: under the fair event loop, with positive capacities and one caller,
\* every wait for a token that begins at least one minute window before the
\* clock of the model stops ends with the grant; a granted caller invokes its
\* producer, an invoked producer's settlement moves the drain on, and the
\* settlement of the last producer makes the drain return.
C15_AcquireEventuallyGranted ==
    /\ (pc[1] = "polling" /\ now <= Horizon - MinuteWindow) ~> (pc[1] = "granted")
    /\ (pc[1] = "granted") ~> (pc[1] = "inflight")
    /\ (pc[1] = "inflight") ~> (pc[1] # "inflight")
    /\ (pc[1] = "inflight" /\ idx[1] = totalPromises(1)) ~> (pc[1] = "returned")

\* The caller polled until the per-minute refill and then got its 4th grant.
C15_Witness ==
    /\ cfg = BothCaps
    /\ minuteRefills = 1
    /\ granted[1] = 4
    /\ wakeAt[1] >= MinuteWindow
    /\ atCall[1].secondRefills = 0

\* C16: a per-minute refill leaves nextPerSecondRefill and the due time of
\* the per-second timer as they are; a per-second refill leaves the minute
\* counter, nextPerMinuteRefill and the per-minute timer as they are.
C16_RefillTimersIndependent ==
    [][/\ minuteRefills' # minuteRefills =>
             /\ nextPerSecondRefill' = nextPerSecondRefill
             /\ perSecondInterval' = perSecondInterval
       /\ (secondRefills' # secondRefills /\ minuteRefills' = minuteRefills) =>
             /\ tokensPerMinuteRemainingRef' = tokensPerMinuteRemainingRef
             /\ tokensPerMinuteRemaining' = tokensPerMinuteRemaining
             /\ nextPerMinuteRefill' = nextPerMinuteRefill
             /\ perMinuteInterval' = perMinuteInterval]_vars

\* The per-minute refill has run while the per-second callback is still due
\* at this instant.
C16_Witness ==
    /\ lastRefill.kind = "minute"
    /\ minuteRefills = 1
    /\ perSecondInterval = now
    /\ nextPerSecondRefill = now
    /\ nextPerMinuteRefill = now + MinuteWindow
    /\ tokensPerSecondRemainingRef = adjustedMaxTokensPerSecond

\* C17: with an integer second capacity, more grants than the capacity occur
\* between two callbacks of the per-second timer only when a per-minute
\* refill has reset the second counter in that window, and then at most
\* twice the capacity.
C17_DoubleRefillOnlyByMinuteRefill ==
    (/\ IntegerCapacity(adjustedMaxTokensPerSecond)
     /\ grantsSinceSecondTick * PercentBase > adjustedMaxTokensPerSecond) =>
        /\ lastRefill.kind = "minute"
        /\ grantsSinceSecondTick * PercentBase <= 2 * adjustedMaxTokensPerSecond
        /\ grantsSinceSecondRefill * PercentBase <= adjustedMaxTokensPerSecond

\* More grants than the second capacity since the last per-second callback,
\* which is due again at this instant.
C17_Witness ==
    /\ IntegerCapacity(adjustedMaxTokensPerSecond)
    /\ grantsSinceSecondTick * PercentBase > adjustedMaxTokensPerSecond
    /\ lastRefill.kind = "minute"
    /\ perSecondInterval = now

\* C18: a refill sets its counter to exactly the capacity and its
\* next-refill time to one window after the refill, and each countdown is
\* between 0 and its window.
C18_RefillToCapacityOneWindowAhead ==
    [][/\ secondRefills' # secondRefills =>
             /\ tokensPerSecondRemainingRef' = adjustedMaxTokensPerSecond
             /\ tokensPerSecondRemaining' = adjustedMaxTokensPerSecond
       /\ (secondRefills' # secondRefills /\ minuteRefills' = minuteRefills) =>
             nextPerSecondRefill' = now' + SecondWindow
       /\ minuteRefills' # minuteRefills =>
             /\ tokensPerMinuteRemainingRef' = adjustedMaxTokensPerMinute
             /\ tokensPerMinuteRemaining' = adjustedMaxTokensPerMinute
             /\ nextPerMinuteRefill' = now' + MinuteWindow
       /\ 0 <= perSecondCountdown' /\ perSecondCountdown' <= SecondWindow
       /\ 0 <= perMinuteCountdown' /\ perMinuteCountdown' <= MinuteWindow]_vars

\* A per-second refill has overwritten a partly used counter, and the
\* countdown read right after it shows a full window.
C18_Witness ==
    /\ lastRefill.kind = "second"
    /\ 0 < lastRefill.second
    /\ lastRefill.second < adjustedMaxTokensPerSecond
    /\ tokensPerSecondRemainingRef = adjustedMaxTokensPerSecond
    /\ nextPerSecondRefill = now + SecondWindow
    /\ perSecondCountdown = SecondWindow
    /\ perMinuteCountdown > 0

\* C19: in every state between two steps of a drain and after it,
\* completed is the length of results, and completed never decreases.
C19_CompletedIsLengthOfResults ==
    [][\A c \in Callers :
          /\ completed'[c] = Len(results'[c])
          /\ completed'[c] >= completed[c]]_vars

\* A drain waits for a token with three tasks completed.
C19_Witness ==
    \E c \in Callers :
        /\ pc[c] = "polling"
        /\ completed[c] = 3
        /\ Len(results[c]) = 3

\* C20 as stated: every grant lowers each counter by exactly one token, and
\* the grants since the last refill of a counter never exceed its capacity,
\* for integer and non-integer capacities.
C20_GrantLowersByExactlyOne ==
    [][/\ \A c \in Callers :
             granted'[c] # granted[c] =>
                 /\ tokensPerSecondRemainingRef' = tokensPerSecondRemainingRef - PercentBase
                 /\ tokensPerMinuteRemainingRef' = tokensPerMinuteRemainingRef - PercentBase
       /\ grantsSinceSecondRefill' * PercentBase <= adjustedMaxTokensPerSecond
       /\ grantsSinceMinuteRefill' * PercentBase <= adjustedMaxTokensPerMinute]_vars

====
